---- MODULE Spec2Model ----
(***************************************************************************)
(* A model of yang_domino.py: the name helpers, the domino propagation     *)
(* engine (domino / _domino) run on inputs drawn from small sets, and the  *)
(* orchestrator loop of main.                                              *)
(*                                                                         *)
(* Strings are sequences of one-character strings, so that splitext,       *)
(* basename, _strip_version and startswith are computed, not assumed.      *)
(***************************************************************************)
EXTENDS Naturals, Sequences, FiniteSets, TLC

VARIABLES
  files_to_scan,    \* domino's argument files_to_scan (a set of names)
  forbidden_files,  \* domino's argument forbidden_files (a set of names)
  dependency_map,   \* domino's argument dependency_map: identity -> list of names
  good_set,         \* _domino's good_set
  bad_set,          \* _domino's bad_set
  root_cause_map,   \* _domino's root_cause_map: identity -> set of identities
  change,           \* _domino's loop flag
  todo,             \* the part of the snapshot set(good_set) the for loop has not visited
  file,             \* the for loop's current file, NoFile between two turns
  di,               \* index of the next dep of dependency_map[file] to look at
  pc,               \* where domino is: "call", "while", "for", "deps", "done", "error"
  call,             \* 1: the call on the drawn inputs, 2: the call on its own result
  first,            \* the first call's arguments and result, once it has returned
  opts,             \* main's options: remove_file_names, library_dirs, use_grep
  dirs,             \* the file system: directory name -> the names of its files
  main_files_to_scan, \* main's files_to_scan
  scan_todo,        \* the files scan_yanger's loop has not run yanger on yet
  incomplete,       \* scan_yanger's incompletely_scanned, then main's incomplete
  found_map,        \* main's found_map: module name -> location or None
  unresolved,       \* the modules the copy loop of main has not visited yet
  outcome,          \* this pass's copy loop: module -> "copied", "failed", "notfound"
  printed,          \* the shapes of the report lines printed so far
  mpc,              \* where main is; "none" when domino runs on its own
  path,             \* a file name given to the identity derivations
  ident,            \* what each site derives from path, NoIdent before
  mf_module_name,   \* module_find's argument module_name
  mf_module_dirs,   \* module_find's argument module_dirs
  dk,               \* index in mf_module_dirs of the next dir_name of the for loop
  selected_module_location, \* module_find's selected_module_location
  found_module_count,       \* module_find's found_module_count
  scan_file,        \* scan_yanger's loop variable file
  nlines,           \* the lines read so far from the stream being read
  seen,             \* the lines the external tool has printed so far, by stream
  grep_files,       \* scan_grep's argument files_to_scan: its names, and whether a list
  grep_out,         \* the lines of egrep's output
  xpc               \* where the helper run on its own is; "none" otherwise

dvars == <<files_to_scan, forbidden_files, dependency_map, good_set, bad_set,
           root_cause_map, change, todo, file, di, pc, call, first>>

mvars == <<opts, dirs, main_files_to_scan, scan_todo, incomplete, found_map,
           unresolved, outcome, printed, mpc>>

\* the state of the helpers run on their own
xvars == <<path, ident, mf_module_name, mf_module_dirs, dk, selected_module_location,
           found_module_count, scan_file, nlines, seen, grep_files, grep_out, xpc>>

vars == <<dvars, mvars, xvars>>

-----------------------------------------------------------------------------
(* Strings *)

Range(seq) == {seq[k] : k \in 1..Len(seq)}

YANG == <<".", "y", "a", "n", "g">>

\* the largest index of character c in s, 0 when there is none (str.rfind)
RFind(s, c) ==
  IF \E k \in 1..Len(s) : s[k] = c
  THEN CHOOSE k \in 1..Len(s) : s[k] = c /\ \A j \in (k+1)..Len(s) : s[j] # c
  ELSE 0

\* the smallest index of character c in s, 0 when there is none (str.find)
Find(s, c) ==
  IF \E k \in 1..Len(s) : s[k] = c
  THEN CHOOSE k \in 1..Len(s) : s[k] = c /\ \A j \in 1..(k-1) : s[j] # c
  ELSE 0

\* os.path.splitext(p)[0]: p up to its last dot, when that dot follows the
\* last "/" and some character between them is not a dot
SplitextRoot(p) ==
  LET sepIndex == RFind(p, "/")
      dotIndex == RFind(p, ".")
  IN  IF dotIndex > sepIndex
         /\ \E k \in (sepIndex+1)..(dotIndex-1) : p[k] # "."
      THEN SubSeq(p, 1, dotIndex-1)
      ELSE p

\* os.path.basename(p) and pathlib.Path(p).name: what follows the last "/"
Basename(p) == SubSeq(p, RFind(p, "/") + 1, Len(p))

\* _strip_version, lines 8-11
StripVersion(filename) ==
  IF Find(filename, "@") = 0
  THEN filename
  ELSE SubSeq(filename, 1, Find(filename, "@") - 1)

\* the identity domino derives from a name: _strip_version(os.path.splitext(file)[0])
DominoIdentity(f) == StripVersion(SplitextRoot(f))

DominoIdentities(names) == {DominoIdentity(f) : f \in names}

-----------------------------------------------------------------------------
(* The inputs domino is run on *)

\* the dependency_map drawn holds at most this many dependency names in all
MaxEdges == 3

A == <<"a">>
B == <<"b">>
CX == <<"c", ".", "x">>
D == <<"d">>

\* module identities and dependency names
Ids == {A, B, CX, D}

\* names files_to_scan is drawn from: a.yang, b@1.yang, c.x.yang
ScanNames == {A \o YANG, B \o <<"@", "1">> \o YANG, CX \o YANG}

\* names forbidden_files is drawn from: b.yang, d@2
ForbidNames == {B \o YANG, D \o <<"@", "2">>}

EmptyMap == [k \in {} |-> <<>>]

\* the identities a name of ScanNames has: only their entries are ever looked up
ScanIds == {A, B, CX}

\* the lists of exactly n names
ListsOf(n) == [1..n -> Ids]

\* the sets of keys drawn: any scanned identity may lack its entry
PartialKeys == {K \cup (Ids \ ScanIds) : K \in SUBSET ScanIds}

\* dependency_map is any map with one of the given sets of keys and at most n
\* dependency names in all
DrawDependencyMap(n, keysets) ==
  \E la \in 0..n : \E lb \in 0..(n - la) : \E lc \in 0..(n - la - lb) :
    \E ld \in 0..(n - la - lb - lc) :
      \E da \in ListsOf(la), db \in ListsOf(lb), dc \in ListsOf(lc), dd \in ListsOf(ld) :
        LET all == (A :> da) @@ (B :> db) @@ (CX :> dc) @@ (D :> dd)
        IN  \E K \in keysets :
              /\ \A k \in Ids \ K : all[k] = <<>>
              /\ dependency_map = [k \in K |-> all[k]]

\* the dependency_map drawn for the runs on cycles holds at most this many
\* dependency names: a cycle of two modules that reaches two forbidden ones
MaxCycleEdges == 4

-----------------------------------------------------------------------------
(* domino and _domino *)

\* lines 94-99: good_set once the names of bad_set are removed from it
InitialGoodKeepsForbidden(files, forbidden) == DominoIdentities(files)

InitialGood(files, forbidden) ==
  DominoIdentities(files) \ DominoIdentities(forbidden)

\* line 95
InitialBad(forbidden) == DominoIdentities(forbidden)

\* lines 115-118: what dep adds to the root causes of a file that depends on it
RootCauseOfDepItself(rcm, dep) == {dep}

RootCauseOf(rcm, dep) ==
  IF dep \in DOMAIN rcm THEN rcm[dep] ELSE {dep}

\* lines 113-118: root_cause_map after file was found to depend on the bad dep
RootCauseAfter(rcm, f, dep) ==
  LET old == IF f \in DOMAIN rcm THEN rcm[f] ELSE {}
  IN  [g \in DOMAIN rcm \cup {f} |->
         IF g = f THEN old \cup RootCauseOf(rcm, dep) ELSE rcm[g]]

\* lines 110-111: good_set after file was moved
GoodKeepsMoved(good, f) == good

GoodAfterMove(good, f) == good \ {f}

\* line 119: the loop flag after a file was moved
ChangeNotRaised == FALSE

ChangeAfterMove == TRUE

\* the loop variable file between two turns of the for loop
NoFile == <<>>

\* domino, lines 94-100, and _domino's lines 103-104
DominoCall ==
  /\ pc = "call"
  /\ UNCHANGED <<mvars, xvars>>
  /\ good_set' = InitialGood(files_to_scan, forbidden_files)
  /\ bad_set' = InitialBad(forbidden_files)
  /\ root_cause_map' = EmptyMap
  /\ change' = TRUE
  /\ pc' = "while"
  /\ UNCHANGED <<files_to_scan, forbidden_files, dependency_map, todo, file, di,
                 call, first>>

\* line 105-107 and 120: the while test; a new pass snapshots good_set
WhileTest ==
  /\ pc = "while"
  /\ UNCHANGED <<mvars, xvars>>
  /\ IF change
     THEN /\ change' = FALSE
          /\ todo' = good_set
          /\ pc' = "for"
     ELSE /\ pc' = "done"
          /\ UNCHANGED <<change, todo>>
  /\ UNCHANGED <<files_to_scan, forbidden_files, dependency_map, good_set, bad_set,
                 root_cause_map, file, di, call, first>>

\* line 107-108: the for loop takes the next file of the snapshot, in any order,
\* and looks its dependencies up; a missing key raises KeyError
ForFile ==
  /\ pc = "for"
  /\ UNCHANGED <<mvars, xvars>>
  /\ IF todo = {}
     THEN /\ pc' = "while"
          /\ UNCHANGED <<todo, file, di>>
     ELSE \E f \in todo :
            /\ todo' = todo \ {f}
            /\ di' = 1
            /\ IF f \notin DOMAIN dependency_map
               THEN pc' = "error" /\ file' = f
               ELSE IF dependency_map[f] = <<>>
               THEN pc' = "for" /\ file' = NoFile
               ELSE pc' = "deps" /\ file' = f
  /\ UNCHANGED <<files_to_scan, forbidden_files, dependency_map, good_set, bad_set,
                 root_cause_map, change, call, first>>

\* lines 108-119: one turn of the inner loop, for dep = dependency_map[file][di]
ForDep ==
  /\ pc = "deps"
  /\ UNCHANGED <<mvars, xvars>>
  /\ LET dep == dependency_map[file][di]
     IN  IF dep \in bad_set
         THEN /\ good_set' = GoodAfterMove(good_set, file)
              /\ bad_set' = bad_set \cup {file}
              /\ root_cause_map' = RootCauseAfter(root_cause_map, file, dep)
              /\ change' = ChangeAfterMove
         ELSE UNCHANGED <<good_set, bad_set, root_cause_map, change>>
  /\ IF di = Len(dependency_map[file])
     THEN pc' = "for" /\ file' = NoFile /\ di' = 1
     ELSE pc' = "deps" /\ file' = file /\ di' = di + 1
  /\ UNCHANGED <<files_to_scan, forbidden_files, dependency_map, todo, call, first>>

NoCall == [files |-> {}, forbidden |-> {}, good |-> {}, bad |-> {},
           root |-> [k \in {} |-> <<>>]]

\* main's state while domino runs on its own
NoOpts == [remove_file_names |-> {}, library_dirs |-> <<>>, use_grep |-> FALSE]
NoDirs == [d \in {} |-> {}]

\* domino called again on its own result: files_to_scan = Good, forbidden_files = Bad
Rerun ==
  /\ pc = "done"
  /\ UNCHANGED <<mvars, xvars>>
  /\ call = 1
  /\ first' = [files |-> files_to_scan, forbidden |-> forbidden_files,
               good |-> good_set, bad |-> bad_set, root |-> root_cause_map]
  /\ files_to_scan' = good_set
  /\ forbidden_files' = bad_set
  /\ call' = 2
  /\ pc' = "call"
  /\ UNCHANGED <<dependency_map, good_set, bad_set, root_cause_map, change, todo,
                 file, di>>

NoIdent == <<>>

NoGrepFiles == [is_list |-> TRUE, names |-> {}]

\* no helper runs on its own
HelpersIdle ==
  /\ path = <<>>
  /\ ident = NoIdent
  /\ mf_module_name = <<>>
  /\ mf_module_dirs = <<>>
  /\ dk = 1
  /\ selected_module_location = <<>>
  /\ found_module_count = 0
  /\ scan_file = <<>>
  /\ nlines = 0
  /\ seen = {}
  /\ grep_files = NoGrepFiles
  /\ grep_out = <<>>
  /\ xpc = "none"

\* main does not run
MainIdle ==
  /\ opts = NoOpts
  /\ dirs = NoDirs
  /\ main_files_to_scan = {}
  /\ scan_todo = {}
  /\ incomplete = {}
  /\ found_map = EmptyMap
  /\ unresolved = {}
  /\ outcome = EmptyMap
  /\ printed = {}
  /\ mpc = "none"

Init ==
  /\ files_to_scan \in SUBSET ScanNames \ {{}}
  /\ forbidden_files \in SUBSET ForbidNames \ {{}}
  /\ DrawDependencyMap(MaxEdges, PartialKeys)
  /\ good_set = {}
  /\ bad_set = {}
  /\ root_cause_map = EmptyMap
  /\ change = FALSE
  /\ todo = {}
  /\ file = NoFile
  /\ di = 1
  /\ pc = "call"
  /\ call = 1
  /\ first = NoCall
  /\ MainIdle
  /\ HelpersIdle

Next ==
  \/ DominoCall
  \/ WhileTest
  \/ ForFile
  \/ ForDep

Spec == Init /\ [][Next]_vars

\* domino called again with the same three arguments
Again ==
  /\ pc = "done"
  /\ UNCHANGED <<mvars, xvars>>
  /\ call = 1
  /\ first' = [files |-> files_to_scan, forbidden |-> forbidden_files,
               good |-> good_set, bad |-> bad_set, root |-> root_cause_map]
  /\ call' = 2
  /\ pc' = "call"
  /\ UNCHANGED <<files_to_scan, forbidden_files, dependency_map, good_set, bad_set,
                 root_cause_map, change, todo, file, di>>

\* two calls of domino on maps that hold an entry for every identity a file
\* to scan can have
AgainInit ==
  /\ files_to_scan \in SUBSET ScanNames \ {{}}
  /\ forbidden_files \in SUBSET ForbidNames \ {{}}
  /\ DrawDependencyMap(MaxEdges, {ScanIds})
  /\ good_set = {}
  /\ bad_set = {}
  /\ root_cause_map = EmptyMap
  /\ change = FALSE
  /\ todo = {}
  /\ file = NoFile
  /\ di = 1
  /\ pc = "call"
  /\ call = 1
  /\ first = NoCall
  /\ MainIdle
  /\ HelpersIdle

NextAgain ==
  \/ DominoCall
  \/ WhileTest
  \/ ForFile
  \/ ForDep
  \/ Again

AgainSpec == AgainInit /\ [][NextAgain]_vars

\* the dependency_map drawn for the runs that are followed to their end holds
\* at most this many dependency names
MaxLoopEdges == 3

\* domino with one forbidden name, on maps that hold an entry for every
\* identity a file to scan can have
LoopInit ==
  /\ files_to_scan \in SUBSET ScanNames \ {{}}
  /\ forbidden_files \in {{f} : f \in ForbidNames}
  /\ DrawDependencyMap(MaxLoopEdges, {ScanIds})
  /\ good_set = {}
  /\ bad_set = {}
  /\ root_cause_map = EmptyMap
  /\ change = FALSE
  /\ todo = {}
  /\ file = NoFile
  /\ di = 1
  /\ pc = "call"
  /\ call = 1
  /\ first = NoCall
  /\ MainIdle
  /\ HelpersIdle

\* domino is one thread that runs until it returns or raises
LoopFairSpec == LoopInit /\ [][Next]_vars /\ WF_vars(Next)

\* domino on maps that hold every identity, with room for cycles
CycleInit ==
  /\ files_to_scan \in SUBSET ScanNames \ {{}}
  /\ forbidden_files \in SUBSET ForbidNames \ {{}}
  /\ DrawDependencyMap(MaxCycleEdges, {Ids})
  /\ good_set = {}
  /\ bad_set = {}
  /\ root_cause_map = EmptyMap
  /\ change = FALSE
  /\ todo = {}
  /\ file = NoFile
  /\ di = 1
  /\ pc = "call"
  /\ call = 1
  /\ first = NoCall
  /\ MainIdle
  /\ HelpersIdle

CycleSpec == CycleInit /\ [][Next]_vars

\* domino, then domino again on what it returned
NextRerun ==
  \/ DominoCall
  \/ WhileTest
  \/ ForFile
  \/ ForDep
  \/ Rerun

RerunSpec == Init /\ [][NextRerun]_vars

-----------------------------------------------------------------------------
(* The files and the external compiler main runs on *)

X == <<"x">>
Y == <<"y">>
Z == <<"z">>
W == <<"w">>
Q == <<"q">>

XFile == X \o YANG
YFile == Y \o <<"@", "1">> \o YANG
ZFile == Z \o YANG
WFile == W \o YANG
QFile == Q \o YANG

Dot == <<".">>
Lib == <<"l", "i", "b">>

\* the import statements of each module: x imports y, y and w import z
Imports == (X :> <<Y>>) @@ (Y :> <<Z>>) @@ (W :> <<Z>>) @@ (Z :> <<>>) @@ (Q :> <<>>)

\* q.yang does not compile: its only output is an error of another shape
Broken == {QFile}

None == <<>>

StartsWith(s, prefix) ==
  Len(s) >= Len(prefix) /\ SubSeq(s, 1, Len(prefix)) = prefix

EndsWith(s, suffix) ==
  Len(s) >= Len(suffix) /\ SubSeq(s, Len(s) - Len(suffix) + 1, Len(s)) = suffix

\* pathlib.Path(dir, name), and the paths glob yields for the files of dir
PathJoin(dir, name) == IF dir = Dot THEN name ELSE dir \o <<"/">> \o name

\* lines 83 and 86: the test module_find puts to the name of a file
NameMatches(name, module_name) ==
  \/ StartsWith(name, module_name \o <<"@">>)
  \/ StartsWith(name, module_name \o YANG)

\* lines 79-86: mod_path, the files of dir_name that match; glob keeps the
\* names that end in .yang (directories have no subdirectories here)
ModPath(module_name, dir_name, content) ==
  IF dir_name \in DOMAIN content
  THEN {PathJoin(dir_name, f) : f \in {g \in content[dir_name] :
                                         EndsWith(g, YANG) /\ NameMatches(g, module_name)}}
  ELSE {}

\* module_find, lines 75-90: the values selected_module_location may have on
\* return: a match of the first directory that has one (glob's order decides
\* which), None when no directory has one
RECURSIVE ModuleFind(_, _, _)
ModuleFind(module_name, module_dirs, content) ==
  IF module_dirs = <<>>
  THEN {None}
  ELSE IF ModPath(module_name, Head(module_dirs), content) # {}
  THEN ModPath(module_name, Head(module_dirs), content)
  ELSE ModuleFind(module_name, Tail(module_dirs), content)

\* line 17: yanger's search path, module_dirs of lines 138 and 167-168
ModuleDirs == <<Dot>>

\* line 139
ExtraDir == Dot

\* the module a file holds
ModuleOf(f) == StripVersion(SplitextRoot(Basename(f)))

\* the imports of file f that yanger does not find on its search path
MissingImports(f, content) ==
  SelectSeq(Imports[ModuleOf(f)],
            LAMBDA imp : ModuleFind(imp, ModuleDirs, content) = {None})

\* lines 17-18 and 23: yanger's success stream for file f, as the pairs
\* (piece[0], piece[2:]) of its well-formed lines: the file and its imports,
\* when the file compiles
YangerStdout(f, content) ==
  IF f \in Broken \/ MissingImports(f, content) # <<>>
  THEN <<>>
  ELSE <<[name |-> f, deps |-> Imports[ModuleOf(f)]]>>

\* lines 17-18 and 34-35: yanger's error stream for file f, as the pairs
\* (piece[0], missing module) of its well-formed lines: the first import that
\* is not found; a broken file gives no well-formed line
YangerStderr(f, content) ==
  IF f \in Broken \/ MissingImports(f, content) = <<>>
  THEN <<>>
  ELSE <<[name |-> <<".", "/">> \o f, missing |-> Head(MissingImports(f, content))]>>

\* lines 21-29: dependency_map after the success lines
RECURSIVE AfterStdout(_, _)
AfterStdout(dm, lines) ==
  IF lines = <<>>
  THEN dm
  ELSE LET name == ModuleOf(Head(lines).name)
           set == [k \in DOMAIN dm \cup {name} |->
                     IF k = name THEN Head(lines).deps ELSE dm[k]]
       IN  AfterStdout(set, Tail(lines))

\* lines 32-42: dependency_map after the error lines
RECURSIVE AfterStderr(_, _)
AfterStderr(dm, lines) ==
  IF lines = <<>>
  THEN dm
  ELSE LET name == ModuleOf(Head(lines).name)
           old == IF name \in DOMAIN dm THEN dm[name] ELSE <<>>
           set == [k \in DOMAIN dm \cup {name} |->
                     IF k = name THEN Append(old, Head(lines).missing) ELSE dm[k]]
       IN  AfterStderr(set, Tail(lines))

-----------------------------------------------------------------------------
(* main *)

\* line 223: the test that selects the plain report
PlainReportEvenWithLibrary(remove_file_names, library_dirs) == remove_file_names = {}

PlainReportGuard(remove_file_names, library_dirs) ==
  remove_file_names = {} /\ library_dirs = <<>>

\* lines 248-254: files_to_scan after the copy to dest_file succeeded or raised
FilesAfterCopyAlwaysAdded(files, dest_file, copied) == files \cup {dest_file}

FilesAfterCopy(files, dest_file, copied) ==
  IF copied THEN files \cup {dest_file} ELSE files

\* lines 217-220: the values found_map may have
FoundMaps(dm, content) ==
  LET names == UNION {Range(dm[k]) : k \in DOMAIN dm}
      locs == UNION {ModuleFind(n, ModuleDirs, content) : n \in names}
  IN  {fm \in [names -> locs] :
         \A n \in names : fm[n] \in ModuleFind(n, ModuleDirs, content)}

\* line 172: the while test; lines 174-177 start the scan. scan_grep's line 49
\* adds the set files_to_scan to a list, which raises TypeError
MainLoop ==
  /\ mpc = "loop"
  /\ UNCHANGED xvars
  /\ outcome' = EmptyMap
  /\ IF main_files_to_scan = {}
     THEN /\ mpc' = "exit"
          /\ UNCHANGED <<dependency_map, incomplete, scan_todo>>
     ELSE IF opts.use_grep
     THEN /\ mpc' = "abort"
          /\ UNCHANGED <<dependency_map, incomplete, scan_todo>>
     ELSE /\ mpc' = "scan"
          /\ dependency_map' = EmptyMap
          /\ incomplete' = {}
          /\ scan_todo' = main_files_to_scan
  /\ UNCHANGED <<files_to_scan, forbidden_files, good_set, bad_set, root_cause_map,
                 change, todo, file, di, pc, call, first>>
  /\ UNCHANGED <<opts, dirs, main_files_to_scan, found_map, unresolved, printed>>

\* scan_yanger, lines 16-45: one turn of the loop over files_to_scan
MainScanFile ==
  /\ mpc = "scan"
  /\ UNCHANGED xvars
  /\ \E f \in scan_todo :
       \E stdout \in {YangerStdout(f, dirs)}, stderr \in {YangerStderr(f, dirs)} :
         /\ scan_todo' = scan_todo \ {f}
         /\ \E after \in {AfterStdout(dependency_map, stdout)} :
              dependency_map' = AfterStderr(after, stderr)
         /\ incomplete' = IF stderr # <<>> THEN incomplete \cup {f} ELSE incomplete
  /\ UNCHANGED <<files_to_scan, forbidden_files, good_set, bad_set, root_cause_map,
                 change, todo, file, di, pc, call, first>>
  /\ UNCHANGED <<opts, dirs, main_files_to_scan, found_map, unresolved, outcome,
                 printed, mpc>>

\* lines 46 and 177-181: scan_yanger returns; with names to remove, domino is called
MainAfterScan ==
  /\ mpc = "scan"
  /\ UNCHANGED xvars
  /\ scan_todo = {}
  /\ IF opts.remove_file_names # {}
     THEN /\ files_to_scan' = {Basename(f) : f \in main_files_to_scan}
          /\ forbidden_files' = opts.remove_file_names
          /\ pc' = "call"
          /\ mpc' = "domino"
     ELSE /\ mpc' = "find"
          /\ UNCHANGED <<files_to_scan, forbidden_files, pc>>
  /\ UNCHANGED <<dependency_map, good_set, bad_set, root_cause_map, change, todo,
                 file, di, call, first>>
  /\ UNCHANGED <<opts, dirs, main_files_to_scan, scan_todo, incomplete, found_map,
                 unresolved, outcome, printed>>

\* lines 181-189: domino has returned; one Bad or Rem line for each file of bad_set
MainDominoReport ==
  /\ mpc = "domino"
  /\ UNCHANGED xvars
  /\ pc = "done"
  /\ printed' = IF bad_set # {} THEN printed \cup {"domino"} ELSE printed
  /\ pc' = "idle"
  /\ mpc' = "find"
  /\ UNCHANGED <<files_to_scan, forbidden_files, dependency_map, good_set, bad_set,
                 root_cause_map, change, todo, file, di, call, first>>
  /\ UNCHANGED <<opts, dirs, main_files_to_scan, scan_todo, incomplete, found_map,
                 unresolved, outcome>>

\* line 181: the KeyError of domino's line 108 is not caught
MainDominoKeyError ==
  /\ mpc = "domino"
  /\ UNCHANGED xvars
  /\ pc = "error"
  /\ pc' = "idle"
  /\ mpc' = "abort"
  /\ UNCHANGED <<files_to_scan, forbidden_files, dependency_map, good_set, bad_set,
                 root_cause_map, change, todo, file, di, call, first>>
  /\ UNCHANGED <<opts, dirs, main_files_to_scan, scan_todo, incomplete, found_map,
                 unresolved, outcome, printed>>

\* lines 214-221: the next file set is incomplete; every name of the map is located
MainFind ==
  /\ mpc = "find"
  /\ UNCHANGED xvars
  /\ main_files_to_scan' = incomplete
  /\ found_map' \in FoundMaps(dependency_map, dirs)
  /\ mpc' = "report"
  /\ UNCHANGED dvars
  /\ UNCHANGED <<opts, dirs, scan_todo, incomplete, unresolved, outcome, printed>>

\* lines 223-239: the plain report, one line for each key of the map, and exit
MainPlainReport ==
  /\ mpc = "report"
  /\ UNCHANGED xvars
  /\ PlainReportGuard(opts.remove_file_names, opts.library_dirs)
  /\ printed' = IF DOMAIN dependency_map # {} THEN printed \cup {"plain"} ELSE printed
  /\ mpc' = "exit"
  /\ UNCHANGED dvars
  /\ UNCHANGED <<opts, dirs, main_files_to_scan, scan_todo, incomplete, found_map,
                 unresolved, outcome>>

\* lines 241-244: with library directories, the copy loop over the names not found
MainLibrary ==
  /\ mpc = "report"
  /\ UNCHANGED xvars
  /\ ~PlainReportGuard(opts.remove_file_names, opts.library_dirs)
  /\ opts.library_dirs # <<>>
  /\ unresolved' = {m \in DOMAIN found_map : found_map[m] = None}
  /\ mpc' = "copy"
  /\ UNCHANGED dvars
  /\ UNCHANGED <<opts, dirs, main_files_to_scan, scan_todo, incomplete, found_map,
                 outcome, printed>>

\* lines 223 and 241: names to remove and no library directory: straight to line 172
MainNoLibrary ==
  /\ mpc = "report"
  /\ UNCHANGED xvars
  /\ ~PlainReportGuard(opts.remove_file_names, opts.library_dirs)
  /\ opts.library_dirs = <<>>
  /\ mpc' = "loop"
  /\ UNCHANGED dvars
  /\ UNCHANGED <<opts, dirs, main_files_to_scan, scan_todo, incomplete, found_map,
                 unresolved, outcome, printed>>

\* lines 244-256: one turn of the copy loop: the module is looked for in the
\* library; shutil.copyfile of what was found succeeds or raises
MainCopy ==
  /\ mpc = "copy"
  /\ UNCHANGED xvars
  /\ \E m \in unresolved :
       /\ unresolved' = unresolved \ {m}
       /\ \E loc \in ModuleFind(m, opts.library_dirs, dirs) :
            /\ found_map' = [found_map EXCEPT ![m] = loc]
            /\ IF loc = None
               THEN /\ outcome' = (m :> "notfound") @@ outcome
                    /\ UNCHANGED <<dirs, main_files_to_scan>>
               ELSE \E copied \in BOOLEAN :
                      LET dest_file == PathJoin(ExtraDir, Basename(loc))
                      IN  /\ outcome' = (m :> IF copied THEN "copied" ELSE "failed")
                                        @@ outcome
                          /\ dirs' = IF copied
                                     THEN [dirs EXCEPT ![ExtraDir] = @ \cup {Basename(loc)}]
                                     ELSE dirs
                          /\ main_files_to_scan' =
                               FilesAfterCopy(main_files_to_scan, dest_file, copied)
  /\ printed' = printed \cup {"copy"}
  /\ UNCHANGED dvars
  /\ UNCHANGED <<opts, scan_todo, incomplete, mpc>>

\* line 244: the copy loop is over; back to line 172
MainCopyDone ==
  /\ mpc = "copy"
  /\ UNCHANGED xvars
  /\ unresolved = {}
  /\ mpc' = "loop"
  /\ UNCHANGED dvars
  /\ UNCHANGED <<opts, dirs, main_files_to_scan, scan_todo, incomplete, found_map,
                 unresolved, outcome, printed>>

\* main after its options are read (line 170): the files of the module
\* directory, those of the library, the options and the files to scan
MainInit ==
  /\ opts \in [remove_file_names : {{}, {Z}, {XFile}},
               library_dirs : {<<>>, <<Lib>>},
               use_grep : BOOLEAN]
  /\ \E here \in {{XFile, WFile, QFile}, {XFile, WFile, QFile, ZFile}} :
       /\ dirs \in {(Dot :> here) @@ (Lib :> there) : there \in SUBSET {YFile, ZFile}}
       /\ main_files_to_scan \in SUBSET here
  /\ scan_todo = {}
  /\ incomplete = {}
  /\ found_map = EmptyMap
  /\ unresolved = {}
  /\ outcome = EmptyMap
  /\ printed = {}
  /\ mpc = "loop"
  /\ files_to_scan = {}
  /\ forbidden_files = {}
  /\ dependency_map = EmptyMap
  /\ good_set = {}
  /\ bad_set = {}
  /\ root_cause_map = EmptyMap
  /\ change = FALSE
  /\ todo = {}
  /\ file = NoFile
  /\ di = 1
  /\ pc = "idle"
  /\ call = 1
  /\ first = NoCall
  /\ HelpersIdle

MainNext ==
  \/ MainLoop
  \/ MainScanFile
  \/ MainAfterScan
  \/ DominoCall
  \/ WhileTest
  \/ ForFile
  \/ ForDep
  \/ MainDominoReport
  \/ MainDominoKeyError
  \/ MainFind
  \/ MainPlainReport
  \/ MainLibrary
  \/ MainNoLibrary
  \/ MainCopy
  \/ MainCopyDone

MainSpec == MainInit /\ [][MainNext]_vars

\* main is one thread that runs until it exits: a step that can be taken is taken
MainFairSpec == MainSpec /\ WF_vars(MainNext)

-----------------------------------------------------------------------------
(* The identity derivations, each applied to the same file name *)

\* os.path.splitext(p)[1]: what SplitextRoot leaves out
SplitextExt(p) == SubSeq(p, Len(SplitextRoot(p)) + 1, Len(p))

\* scan_yanger, lines 28 and 40: the key derived from the name on a line
YangerKey(name) == StripVersion(SplitextRoot(Basename(name)))

\* scan_grep, line 53: the [0] applies to the stripped name, so splitext is
\* given its first character and the key is the pair splitext returns
GrepFileKey(f) ==
  LET c == SubSeq(StripVersion(Basename(f)), 1, 1)
  IN  <<SplitextRoot(c), SplitextExt(c)>>

\* scan_grep, line 63: the key derived from the name on an output line
GrepLineKey(name) == SplitextRoot(Basename(name))

\* main, line 181, and domino, line 94: the identity of a file to scan
MainIdentity(f) == DominoIdentity(Basename(f))

\* directory, stem, version and extension of the file names drawn
PathDirs == {<<>>, <<"l", "/">>}
PathStems == {<<"a">>, <<"c", ".", "x">>, <<"f", "o", "o">>}
PathVersions == {<<>>, <<"@", "1">>, <<"@", "1", ".", "2">>}
PathExts == {<<>>, YANG, <<".", "y", "i", "n">>}

Paths ==
  {d \o st \o v \o e : d \in PathDirs, st \in PathStems, v \in PathVersions,
                       e \in PathExts}

IdentityInit ==
  /\ path \in Paths
  /\ ident = NoIdent
  /\ xpc = "derive"
  /\ mf_module_name = <<>>
  /\ mf_module_dirs = <<>>
  /\ dk = 1
  /\ selected_module_location = <<>>
  /\ found_module_count = 0
  /\ scan_file = <<>>
  /\ nlines = 0
  /\ seen = {}
  /\ grep_files = NoGrepFiles
  /\ grep_out = <<>>
  /\ files_to_scan = {}
  /\ forbidden_files = {}
  /\ dependency_map = EmptyMap
  /\ good_set = {}
  /\ bad_set = {}
  /\ root_cause_map = EmptyMap
  /\ change = FALSE
  /\ todo = {}
  /\ file = NoFile
  /\ di = 1
  /\ pc = "idle"
  /\ call = 1
  /\ first = NoCall
  /\ MainIdle

\* every site derives its identity or key from path
Derive ==
  /\ xpc = "derive"
  /\ ident' = [domino |-> DominoIdentity(path),
               main |-> MainIdentity(path),
               yanger |-> YangerKey(path),
               grep_file |-> GrepFileKey(path),
               grep_line |-> GrepLineKey(path),
               again |-> NoIdent]
  /\ xpc' = "derived"
  /\ UNCHANGED <<dvars, mvars, path, mf_module_name, mf_module_dirs, dk,
                 selected_module_location, found_module_count, scan_file, nlines,
                 seen, grep_files, grep_out>>

\* domino's derivation applied to the identity it derived (lines 94-95 on a
\* name that is an identity already)
DeriveAgain ==
  /\ xpc = "derived"
  /\ ident' = [ident EXCEPT !.again = DominoIdentity(ident.domino)]
  /\ xpc' = "again"
  /\ UNCHANGED <<dvars, mvars, path, mf_module_name, mf_module_dirs, dk,
                 selected_module_location, found_module_count, scan_file, nlines,
                 seen, grep_files, grep_out>>

IdentityNext ==
  \/ Derive
  \/ DeriveAgain

IdentitySpec == IdentityInit /\ [][IdentityNext]_vars

-----------------------------------------------------------------------------
(* module_find run on its own *)

M == <<"m">>
DirA == <<"d", "a">>
DirB == <<"d", "b">>
DirC == <<"d", "c">>

\* the file names a directory may hold: m.yang, m@1.yang, m.yang.yang and
\* m@2 (no extension) and mm.yang
FindNames ==
  {M \o YANG, M \o <<"@", "1">> \o YANG, M \o YANG \o YANG, M \o <<"@", "2">>,
   M \o M \o YANG}

\* module_dirs holds at most this many directory names
MaxDirs == 3

\* the lists of at most MaxDirs names among dirA, dirB and dirC, which does
\* not exist
DirLists == UNION {[1..n -> {DirA, DirB, DirC}] : n \in 0..MaxDirs}

\* line 87: a directory with matches sets the location when none is set yet
SelectionLastWins(selected, mod_path) == mod_path # {}

SelectionOpen(selected, mod_path) == mod_path # {} /\ selected = None

FindInit ==
  /\ mf_module_name = M
  /\ mf_module_dirs \in DirLists
  /\ dirs \in {(DirA :> inA) @@ (DirB :> inB) : inA, inB \in SUBSET FindNames}
  /\ dk = 1
  /\ selected_module_location = None
  /\ found_module_count = 0
  /\ xpc = "find"
  /\ path = <<>>
  /\ ident = NoIdent
  /\ scan_file = <<>>
  /\ nlines = 0
  /\ seen = {}
  /\ grep_files = NoGrepFiles
  /\ grep_out = <<>>
  /\ opts = NoOpts
  /\ main_files_to_scan = {}
  /\ scan_todo = {}
  /\ incomplete = {}
  /\ found_map = EmptyMap
  /\ unresolved = {}
  /\ outcome = EmptyMap
  /\ printed = {}
  /\ mpc = "none"
  /\ files_to_scan = {}
  /\ forbidden_files = {}
  /\ dependency_map = EmptyMap
  /\ good_set = {}
  /\ bad_set = {}
  /\ root_cause_map = EmptyMap
  /\ change = FALSE
  /\ todo = {}
  /\ file = NoFile
  /\ di = 1
  /\ pc = "idle"
  /\ call = 1
  /\ first = NoCall

\* lines 78-88: one turn of the loop over module_dirs; mod_path[0] is any of
\* the matches, in the order glob yields them
FindDir ==
  /\ xpc = "find"
  /\ dk <= Len(mf_module_dirs)
  /\ \E mod_path \in {ModPath(mf_module_name, mf_module_dirs[dk], dirs)} :
       /\ found_module_count' = found_module_count + Cardinality(mod_path)
       /\ IF SelectionOpen(selected_module_location, mod_path)
          THEN selected_module_location' \in mod_path
          ELSE UNCHANGED selected_module_location
  /\ dk' = dk + 1
  /\ UNCHANGED <<dvars, mvars, path, ident, mf_module_name, mf_module_dirs, xpc,
                 scan_file, nlines, seen, grep_files, grep_out>>

\* line 90
FindReturn ==
  /\ xpc = "find"
  /\ dk > Len(mf_module_dirs)
  /\ xpc' = "returned"
  /\ UNCHANGED <<dvars, mvars, path, ident, mf_module_name, mf_module_dirs, dk,
                 selected_module_location, found_module_count, scan_file, nlines,
                 seen, grep_files, grep_out>>

FindNext ==
  \/ FindDir
  \/ FindReturn

FindSpec == FindInit /\ [][FindNext]_vars

-----------------------------------------------------------------------------
(* scan_yanger run on its own, on any lines the external compiler may print *)

\* str.split(c): the pieces of s between the occurrences of character c
RECURSIVE Split(_, _)
Split(s, c) ==
  IF Find(s, c) = 0
  THEN <<s>>
  ELSE <<SubSeq(s, 1, Find(s, c) - 1)>> \o Split(SubSeq(s, Find(s, c) + 1, Len(s)), c)

\* line 37: the text piece[2] is compared with
ErrorWord == <<" ", "e", "r", "r", "o", "r">>

\* y@2.yang, a second revision of module y
Y2File == Y \o <<"@", "2">> \o YANG

\* "<name> : <dep1> <dep2> ..." (line 23)
RECURSIVE Spaced(_)
Spaced(deps) ==
  IF deps = <<>> THEN <<>> ELSE <<" ">> \o Head(deps) \o Spaced(Tail(deps))

OutLine(name, deps) == name \o <<" ", ":">> \o Spaced(deps)

\* "./<file>:11: error: module '<name>' not found" (lines 34-35)
ErrLine(f, name) ==
  <<".", "/">> \o f \o <<":", "1", "1", ":">> \o ErrorWord \o
  <<":", " ", "m", "o", "d", "u", "l", "e", " ", "'">> \o name \o <<"'", " ", "n", "o", "t", " ", "f", "o", "u", "n", "d">>

\* "./<file>:3: error: syntax error"
SyntaxErrLine(f) ==
  <<".", "/">> \o f \o <<":", "3", ":">> \o ErrorWord \o <<":", " ", "s", "y", "n", "t", "a", "x", " ", "e", "r", "r", "o", "r">>

\* "./<file>:7: error: prefix '<name>' not defined"
PrefixErrLine(f, name) ==
  <<".", "/">> \o f \o <<":", "7", ":">> \o ErrorWord \o
  <<":", " ", "p", "r", "e", "f", "i", "x", " ", "'">> \o name \o <<"'", " ", "n", "o", "t", " ", "d", "e", "f", "i", "n", "e", "d">>

\* "./<file>:9: warning: unused"
WarningLine(f) ==
  <<".", "/">> \o f \o <<":", "9", ":", " ", "w", "a", "r", "n", "i", "n", "g", ":", " ", "u", "n", "u", "s", "e", "d">>

\* "yanger 1"
BannerLine == <<"y", "a", "n", "g", "e", "r", " ", "1">>

\* the lines yanger may print on its success stream ...
OutLines ==
  {OutLine(XFile, <<Y>>), OutLine(YFile, <<Z>>), OutLine(Y2File, <<W>>), BannerLine}

\* ... and on its error stream
ErrLines ==
  {ErrLine(XFile, Y), ErrLine(YFile, Z), SyntaxErrLine(XFile),
   PrefixErrLine(XFile, Q), WarningLine(XFile), BannerLine}

\* one run of yanger prints at most this many lines on each stream
MaxLines == 2

\* line 25: the success lines that are skipped
StdoutSkipped(piece) == Len(piece) < 2 \/ piece[2] # <<":">>

\* line 37: the error lines that are skipped
StderrSkipped(piece) == Len(piece) < 4 \/ piece[3] # ErrorWord

YangerInit ==
  /\ scan_todo \in SUBSET {XFile, YFile, Y2File} \ {{}}
  /\ dependency_map = EmptyMap
  /\ incomplete = {}
  /\ scan_file = <<>>
  /\ nlines = 0
  /\ seen = {}
  /\ grep_files = NoGrepFiles
  /\ grep_out = <<>>
  /\ xpc = "files"
  /\ path = <<>>
  /\ ident = NoIdent
  /\ mf_module_name = <<>>
  /\ mf_module_dirs = <<>>
  /\ dk = 1
  /\ selected_module_location = <<>>
  /\ found_module_count = 0
  /\ opts = NoOpts
  /\ dirs = NoDirs
  /\ main_files_to_scan = {}
  /\ found_map = EmptyMap
  /\ unresolved = {}
  /\ outcome = EmptyMap
  /\ printed = {}
  /\ mpc = "none"
  /\ files_to_scan = {}
  /\ forbidden_files = {}
  /\ good_set = {}
  /\ bad_set = {}
  /\ root_cause_map = EmptyMap
  /\ change = FALSE
  /\ todo = {}
  /\ file = NoFile
  /\ di = 1
  /\ pc = "idle"
  /\ call = 1
  /\ first = NoCall

\* what scan_yanger's steps leave alone
YangerFrame ==
  UNCHANGED <<files_to_scan, forbidden_files, good_set, bad_set, root_cause_map,
              change, todo, file, di, pc, call, first, opts, dirs,
              main_files_to_scan, found_map, unresolved, outcome, printed, mpc,
              path, ident, mf_module_name, mf_module_dirs, dk,
              selected_module_location, found_module_count, grep_files, grep_out>>

\* lines 16-18: the next file of files_to_scan is given to yanger
YangerRun ==
  /\ xpc = "files"
  /\ \E f \in scan_todo :
       /\ scan_file' = f
       /\ scan_todo' = scan_todo \ {f}
  /\ nlines' = 0
  /\ xpc' = "stdout"
  /\ YangerFrame
  /\ UNCHANGED <<dependency_map, incomplete, seen>>

\* lines 21-29: one line of the success stream
YangerOutLine ==
  /\ xpc = "stdout"
  /\ nlines < MaxLines
  /\ \E line \in OutLines :
       \E piece \in {Split(line, " ")} :
         /\ seen' = seen \cup {<<"out", line>>}
         /\ dependency_map' =
              IF StdoutSkipped(piece)
              THEN dependency_map
              ELSE AfterStdout(dependency_map,
                               <<[name |-> piece[1],
                                  deps |-> SubSeq(piece, 3, Len(piece))]>>)
  /\ nlines' = nlines + 1
  /\ YangerFrame
  /\ UNCHANGED <<scan_todo, incomplete, scan_file, xpc>>

\* line 32: the success stream is read, the error stream is next
YangerOutEnd ==
  /\ xpc = "stdout"
  /\ nlines' = 0
  /\ xpc' = "stderr"
  /\ YangerFrame
  /\ UNCHANGED <<scan_todo, dependency_map, incomplete, scan_file, seen>>

\* lines 32-45: one line of the error stream; line 41 raises IndexError when
\* the text after " error:" holds no quote
YangerErrLine ==
  /\ xpc = "stderr"
  /\ nlines < MaxLines
  /\ \E line \in ErrLines :
       \E piece \in {Split(line, ":")} :
         /\ seen' = seen \cup {<<"err", line>>}
         /\ IF StderrSkipped(piece)
            THEN UNCHANGED <<dependency_map, incomplete, xpc>>
            ELSE \E quoted \in {Split(piece[4], "'")} :
                   IF Len(quoted) < 2
                   THEN /\ xpc' = "error"
                        /\ UNCHANGED <<dependency_map, incomplete>>
                   ELSE /\ dependency_map' =
                             AfterStderr(dependency_map,
                                         <<[name |-> piece[1], missing |-> quoted[2]]>>)
                        /\ incomplete' = incomplete \cup {scan_file}
                        /\ UNCHANGED xpc
  /\ nlines' = nlines + 1
  /\ YangerFrame
  /\ UNCHANGED <<scan_todo, scan_file>>

\* line 16: the error stream is read, the next file is next
YangerErrEnd ==
  /\ xpc = "stderr"
  /\ nlines' = 0
  /\ xpc' = "files"
  /\ YangerFrame
  /\ UNCHANGED <<scan_todo, dependency_map, incomplete, scan_file, seen>>

\* line 46
YangerReturn ==
  /\ xpc = "files"
  /\ scan_todo = {}
  /\ xpc' = "returned"
  /\ YangerFrame
  /\ UNCHANGED <<scan_todo, dependency_map, incomplete, scan_file, nlines, seen>>

YangerNext ==
  \/ YangerRun
  \/ YangerOutLine
  \/ YangerOutEnd
  \/ YangerErrLine
  \/ YangerErrEnd
  \/ YangerReturn

YangerSpec == YangerInit /\ [][YangerNext]_vars

-----------------------------------------------------------------------------
(* scan_grep run on its own *)

\* str.replace(word, ""): s without the occurrences of word, left to right
RECURSIVE Without(_, _)
Without(s, word) ==
  IF Len(s) < Len(word) \/ s = <<>>
  THEN s
  ELSE IF StartsWith(s, word)
  THEN Without(SubSeq(s, Len(word) + 1, Len(s)), word)
  ELSE <<Head(s)>> \o Without(Tail(s), word)

Blank == {" ", "\t"}

\* str.strip(): s without the blanks at its two ends
RECURSIVE Strip(_)
Strip(s) ==
  IF s = <<>> THEN s
  ELSE IF Head(s) \in Blank THEN Strip(Tail(s))
  ELSE IF s[Len(s)] \in Blank THEN Strip(SubSeq(s, 1, Len(s) - 1))
  ELSE s

ImportWord == <<"i", "m", "p", "o", "r", "t">>
IncludeWord == <<"i", "n", "c", "l", "u", "d", "e">>

\* lines 64-71: the dependency name cut out of piece[1]. find gives -1 when
\* the character is absent, so "if not end" holds only for a "{" at index 0,
\* and without a "{" the slice dep[:-1] drops the last character
GrepDep(text) ==
  LET dep == Without(Without(text, ImportWord), IncludeWord)
      brace == Find(dep, "{")
      end == IF brace = 1 THEN Find(dep, ";") ELSE brace
  IN  Strip(IF end = 0
            THEN SubSeq(dep, 1, Len(dep) - 1)
            ELSE SubSeq(dep, 1, end - 1))

AFile == A \o YANG
BFile == B \o YANG
EFile == <<"e", "@", "1">> \o YANG

\* what egrep prints for a matched line: "  import <name> {" or
\* "  include <name>;", after "<file>:" when it was given several files
MatchText(word, name) ==
  <<" ", " ">> \o word \o <<" ">> \o name \o
  (IF word = ImportWord THEN <<" ", "{">> ELSE <<";">>)

GrepLine(f, word, name) == f \o <<":">> \o MatchText(word, name)

\* the statements of each file: a.yang imports b and includes c, e@1.yang
\* imports b, b.yang has none
Statements ==
  (AFile :> {<<ImportWord, B>>, <<IncludeWord, <<"c">>>>}) @@
  (EFile :> {<<ImportWord, B>>}) @@
  (BFile :> {})

\* egrep's output lines for the files it is given, in the order of any list
\* of the files
GrepOutputLines(names) ==
  UNION {{IF Cardinality(names) > 1
          THEN GrepLine(f, st[1], st[2])
          ELSE MatchText(st[1], st[2]) : st \in Statements[f]} : f \in names}

RECURSIVE Orders(_)
Orders(lines) ==
  IF lines = {} THEN {<<>>}
  ELSE UNION {{<<l>> \o rest : rest \in Orders(lines \ {l})} : l \in lines}

GrepInit ==
  /\ grep_files \in [is_list : BOOLEAN, names : SUBSET {AFile, BFile, EFile} \ {{}}]
  /\ grep_out \in Orders(GrepOutputLines(grep_files.names))
  /\ nlines = 0
  /\ xpc = "grep"
  /\ dependency_map = EmptyMap
  /\ incomplete = {}
  /\ scan_todo = {}
  /\ scan_file = <<>>
  /\ seen = {}
  /\ path = <<>>
  /\ ident = NoIdent
  /\ mf_module_name = <<>>
  /\ mf_module_dirs = <<>>
  /\ dk = 1
  /\ selected_module_location = <<>>
  /\ found_module_count = 0
  /\ opts = NoOpts
  /\ dirs = NoDirs
  /\ main_files_to_scan = {}
  /\ found_map = EmptyMap
  /\ unresolved = {}
  /\ outcome = EmptyMap
  /\ printed = {}
  /\ mpc = "none"
  /\ files_to_scan = {}
  /\ forbidden_files = {}
  /\ good_set = {}
  /\ bad_set = {}
  /\ root_cause_map = EmptyMap
  /\ change = FALSE
  /\ todo = {}
  /\ file = NoFile
  /\ di = 1
  /\ pc = "idle"
  /\ call = 1
  /\ first = NoCall

\* what scan_grep's steps leave alone
GrepFrame ==
  UNCHANGED <<files_to_scan, forbidden_files, good_set, bad_set, root_cause_map,
              change, todo, file, di, pc, call, first, opts, dirs,
              main_files_to_scan, found_map, unresolved, outcome, printed, mpc,
              path, ident, mf_module_name, mf_module_dirs, dk,
              selected_module_location, found_module_count, scan_todo, scan_file,
              seen, grep_files, grep_out>>

\* lines 49-50: a set cannot be added to the list of arguments (TypeError);
\* egrep exits with status 1 when it selects no line, and check=True raises
GrepCall ==
  /\ xpc = "grep"
  /\ xpc' = IF ~grep_files.is_list \/ grep_out = <<>> THEN "error" ELSE "keys"
  /\ GrepFrame
  /\ UNCHANGED <<dependency_map, incomplete, nlines>>

\* lines 51-54: an empty list for every file, under the key line 53 derives
GrepKeys ==
  /\ xpc = "keys"
  /\ dependency_map' = [k \in {GrepFileKey(f) : f \in grep_files.names} |-> <<>>]
  /\ xpc' = "lines"
  /\ GrepFrame
  /\ UNCHANGED <<incomplete, nlines>>

\* lines 55-72: one line of the output; line 72 raises KeyError when the key
\* line 63 derives is not in the map
GrepOutLine ==
  /\ xpc = "lines"
  /\ nlines < Len(grep_out)
  /\ \E piece \in {Split(grep_out[nlines + 1], ":")} :
       IF Len(piece) # 2
       THEN UNCHANGED <<dependency_map, xpc>>
       ELSE \E name \in {GrepLineKey(piece[1])} :
              IF name \notin DOMAIN dependency_map
              THEN xpc' = "error" /\ UNCHANGED dependency_map
              ELSE /\ dependency_map' =
                        [dependency_map EXCEPT ![name] = Append(@, GrepDep(piece[2]))]
                   /\ UNCHANGED xpc
  /\ nlines' = nlines + 1
  /\ GrepFrame
  /\ UNCHANGED incomplete

\* line 73
GrepReturn ==
  /\ xpc = "lines"
  /\ nlines = Len(grep_out)
  /\ incomplete' = {}
  /\ xpc' = "returned"
  /\ GrepFrame
  /\ UNCHANGED <<dependency_map, nlines>>

GrepNext ==
  \/ GrepCall
  \/ GrepKeys
  \/ GrepOutLine
  \/ GrepReturn

GrepSpec == GrepInit /\ [][GrepNext]_vars

-----------------------------------------------------------------------------
(* Vocabulary of the properties of domino *)

\* the dependency names listed for m, none when m has no entry
Deps(m) == IF m \in DOMAIN dependency_map THEN Range(dependency_map[m]) ELSE {}

\* the identities of the current call's two arguments
Scanned == DominoIdentities(files_to_scan)
OrigBad == DominoIdentities(forbidden_files)

\* the modules of `through` from which a chain of dependency edges leads to a
\* module of `targets`, every module of the chain before its end in `through`
RECURSIVE Grow(_, _, _)
Grow(R, targets, through) ==
  LET R2 == {x \in through : Deps(x) \cap (targets \cup R) # {}}
  IN  IF R2 = R THEN R ELSE Grow(R2, targets, through)

DependOn(targets, through) == Grow({}, targets, through)

Returned == pc = "done"
Returned1 == pc = "done" /\ call = 1

\* C1: when domino returns, Good and Bad are disjoint, every identity of
\* files_to_scan is in one of them, and an identity given in both arguments is
\* in Bad and not in Good.
C1_Partition ==
  Returned =>
    /\ good_set \cap bad_set = {}
    /\ Scanned \subseteq good_set \cup bad_set
    /\ \A m \in Scanned \cap OrigBad : m \in bad_set /\ m \notin good_set

\* a return where an identity was given in both arguments and another module
\* was moved to Bad by the loop
C1_Witness ==
  /\ Returned1
  /\ Scanned \cap OrigBad # {}
  /\ bad_set \ OrigBad # {}
  /\ good_set # {}

\* C2 as stated: when domino returns, Bad is the forbidden identities and the
\* scanned modules from which any chain of dependency_map edges leads to a
\* forbidden identity; every other scanned module is in Good.
C2_AnyChain ==
  Returned1 =>
    /\ bad_set = OrigBad \cup (Scanned \cap DependOn(OrigBad, Ids))
    /\ good_set = Scanned \ bad_set

\* C2 amended: when domino returns, Bad is the forbidden identities and the
\* scanned modules from which a chain of dependency_map edges through scanned
\* modules leads to a forbidden identity; every other scanned module is in Good.
C2_ScannedChain ==
  Returned1 =>
    /\ bad_set = OrigBad \cup DependOn(OrigBad, Scanned)
    /\ good_set = Scanned \ bad_set

\* the scenario of the claim (files a, b, c.x; b forbidden; a: [b], b: [],
\* c.x: [d]) has returned Good = {c.x}, Bad = {a, b} ...
C2_Scenario ==
  /\ Returned1
  /\ files_to_scan = ScanNames
  /\ forbidden_files = {B \o YANG}
  /\ dependency_map = (A :> <<B>>) @@ (B :> <<>>) @@ (CX :> <<D>>)
  /\ good_set = {CX}
  /\ bad_set = {A, B}

\* ... and a module was moved to Bad in a later pass than the module it depends on
C2_Witness ==
  \/ C2_Scenario
  \/ /\ Returned1
     /\ \E m \in bad_set \ OrigBad : Deps(m) \cap OrigBad = {}

\* C3: at every step, the root causes recorded for a module of Bad that was not
\* forbidden are all identities of forbidden_files.
C3_RootCauseClosure ==
  pc \in {"while", "for", "deps", "done", "error"} =>
    \A m \in bad_set \ OrigBad :
      m \in DOMAIN root_cause_map /\ root_cause_map[m] \subseteq OrigBad

\* a module took its root causes over from a contaminated module it depends on
C3_Witness ==
  /\ call = 1
  /\ \E m \in DOMAIN root_cause_map :
       \E d \in Deps(m) \cap DOMAIN root_cause_map :
         /\ d # m
         /\ root_cause_map[d] \subseteq root_cause_map[m]

\* C4: when domino returns, the root causes of every module of Bad that was not
\* forbidden are the union, over all its dependencies that are in Bad, of
\* their root causes (of the dependency itself when it has no entry).
C4_RootCauseComplete ==
  Returned1 =>
    \A m \in bad_set \ OrigBad :
      /\ m \in DOMAIN root_cause_map
      /\ root_cause_map[m] =
           UNION {RootCauseOf(root_cause_map, d) : d \in Deps(m) \cap bad_set}

\* C5: a scanned module without an entry in dependency_map does not make
\* domino fail, and is in Good on return unless it is forbidden.
C5_MissingEntryTolerated ==
  call = 1 =>
    \A m \in Scanned \ DOMAIN dependency_map :
      /\ pc # "error"
      /\ Returned => (m \in good_set \/ m \in OrigBad)

\* the scanned modules that are not forbidden
GoodAtCall == Scanned \ OrigBad

\* m lies on a dependency cycle of scanned modules that are not forbidden
OnCycle(m) == m \in Grow({}, {m}, GoodAtCall)

\* the forbidden identities a chain through such modules leads to from m
RootsReached(m) == {r \in OrigBad : m \in Grow({}, {r}, GoodAtCall)}

\* C7: when domino returns, the members of a dependency cycle are in Good if
\* the cycle reaches no forbidden module, and otherwise they are in Bad with
\* root causes that hold the forbidden modules the cycle reaches.
C7_CycleSafety ==
  Returned1 =>
    \A m \in GoodAtCall :
      OnCycle(m) =>
        IF RootsReached(m) = {}
        THEN m \in good_set
        ELSE /\ m \in bad_set
             /\ m \in DOMAIN root_cause_map
             /\ root_cause_map[m] # {}
             /\ RootsReached(m) \subseteq root_cause_map[m]

\* C8: domino called on its own result (files_to_scan = Good, forbidden_files
\* = Bad, same dependency_map) returns, with the same Good and Bad.
C8_FixedPoint ==
  call = 2 =>
    /\ pc # "error"
    /\ Returned => (good_set = first.good /\ bad_set = first.bad)

\* a step of the loop: Good only shrinks, Bad only grows, and the loop flag
\* is raised only when a module leaves Good
LoopStepMonotone ==
  pc \in {"while", "for", "deps"} =>
    /\ good_set' \subseteq good_set
    /\ bad_set \subseteq bad_set'
    /\ (~change /\ change') => good_set' # good_set

\* C15: the propagation loop terminates on every input: at every loop step
\* Good only shrinks and Bad only grows, the loop flag is raised only by a
\* step that moves a module, a pass that leaves it down is the last one, and
\* domino ends.
C15_LoopTerminates ==
  /\ [][LoopStepMonotone]_vars
  /\ [][(pc = "while" /\ ~change) => pc' = "done"]_vars
  /\ <>(pc \in {"done", "error"})

\* domino has returned with the two modules of a dependency cycle moved to Bad
C15_Witness ==
  /\ Returned1
  /\ \E m, n \in bad_set \ OrigBad : m # n /\ n \in Deps(m) /\ m \in Deps(n)

\* C16: two runs of domino on the same arguments return the same Good and
\* the same Bad, whatever the order each iterates over Good in.
C16_SamePartition ==
  (call = 2 /\ Returned) => (good_set = first.good /\ bad_set = first.bad)

\* the second run has returned; two modules or more were contaminated, and
\* the root causes differ from the first run's, so the orders differed
C16_Witness ==
  /\ call = 2
  /\ Returned
  /\ Cardinality(bad_set \ OrigBad) >= 2
  /\ root_cause_map # first.root

\* C17: two runs of domino on the same arguments return the same
\* root_cause_map, whatever the order each iterates over Good in.
C17_SameRootCauses ==
  (call = 2 /\ Returned) => root_cause_map = first.root

-----------------------------------------------------------------------------
(* Properties of main *)

Stopped == mpc \in {"exit", "abort"}

\* C6: main's loop terminates: every run reaches the end of main.
C6_Terminates == <>Stopped

\* C9 as stated: a run prints lines of at most one of the three shapes.
C9_OneShape == Cardinality(printed) <= 1

\* C9 amended: the plain table is printed only without names to remove and
\* without library directories, and then nothing else is; the domino table
\* needs names to remove and the copy lines need library directories, so only
\* a run with both options prints two shapes, those two.
C9_PlainExclusive ==
  /\ "plain" \in printed =>
       /\ printed = {"plain"}
       /\ opts.remove_file_names = {}
       /\ opts.library_dirs = <<>>
  /\ "domino" \in printed => opts.remove_file_names # {}
  /\ "copy" \in printed => opts.library_dirs # <<>>

\* a run with both options has printed the domino table and copy lines
C9_Witness ==
  /\ opts.remove_file_names # {}
  /\ opts.library_dirs # <<>>
  /\ printed = {"domino", "copy"}

\* where the copy loop puts the file found for module m
DestFile(m) == PathJoin(ExtraDir, Basename(found_map[m]))

\* C10: a copy that fails does not end the run and does not add the file to
\* the next file set; the other modules of the pass are still looked for, and
\* those that are copied are added.
C10_CopyFailureContained ==
  /\ \A m \in DOMAIN outcome :
       /\ outcome[m] = "failed" =>
            /\ mpc \in {"copy", "loop"}
            /\ DestFile(m) \notin main_files_to_scan
       /\ outcome[m] = "copied" =>
            /\ DestFile(m) \in main_files_to_scan
            /\ Basename(found_map[m]) \in dirs[ExtraDir]
  /\ (mpc = "loop" /\ opts.library_dirs # <<>>) =>
       \A m \in DOMAIN found_map : found_map[m] = None => m \in DOMAIN outcome

\* a pass is over in which one copy failed and another module was copied
C10_Witness ==
  /\ mpc = "loop"
  /\ \E m, n \in DOMAIN outcome : outcome[m] = "failed" /\ outcome[n] = "copied"

-----------------------------------------------------------------------------
(* Properties of the identity derivations *)

\* C14: the derivation domino uses, applied to an identity it derived, returns
\* that identity unchanged: normalize(normalize(x)) = normalize(x).
C14_Idempotent ==
  xpc = "again" => ident.again = ident.domino

\* C18: for the same file name, the key scan_yanger stores under, the keys
\* scan_grep stores under and the identity domino derives (from the name main
\* hands it for a scanned file, from the name as given for a forbidden one)
\* are all equal.
C18_SameKeyEverywhere ==
  xpc \in {"derived", "again"} =>
    /\ ident.yanger = ident.main
    /\ ident.grep_file = ident.main
    /\ ident.grep_line = ident.main
    /\ ident.domino = ident.yanger

-----------------------------------------------------------------------------
(* Properties of module_find *)

\* the positions in module_dirs of the directories that hold a match
Hits ==
  {k \in 1..Len(mf_module_dirs) : ModPath(mf_module_name, mf_module_dirs[k], dirs) # {}}

\* C13: module_find returns a match of the first directory of module_dirs
\* that holds one, whatever the later directories hold and however many
\* matches there are, and None exactly when no directory holds a match.
C13_FirstDirectoryWins ==
  xpc = "returned" =>
    /\ (selected_module_location = None) <=> (Hits = {})
    /\ \A k \in Hits :
         (\A j \in Hits : k <= j) =>
           selected_module_location \in ModPath(mf_module_name, mf_module_dirs[k], dirs)

\* returned from dirA, dirB with matches in both, three or more in all
C13_Witness ==
  /\ xpc = "returned"
  /\ mf_module_dirs = <<DirA, DirB>>
  /\ Hits = {1, 2}
  /\ found_module_count >= 3
  /\ selected_module_location \in ModPath(mf_module_name, DirA, dirs)

-----------------------------------------------------------------------------
(* Properties of scan_yanger *)

\* the names an entry of dependency_map lists for identity id
Listed(id) == IF id \in DOMAIN dependency_map THEN Range(dependency_map[id]) ELSE {}

\* the files and the modules the lines drawn name
LineFiles == {XFile, YFile, Y2File}
LineModules == {Y, Z, W, Q}

\* C11: when scan_yanger returns, for every error line
\* "<file>:<line>: error: module '<name>' not found" seen during the pass,
\* the entry of <file>'s identity lists <name> and <file> is in the
\* incomplete set.
C11_ErrorLineRecorded ==
  xpc = "returned" =>
    \A f \in LineFiles, name \in LineModules :
      <<"err", ErrLine(f, name)>> \in seen =>
        /\ name \in Listed(MainIdentity(f))
        /\ \E g \in incomplete : Basename(g) = f

\* C19: when scan_yanger returns, the entry of an identity lists every
\* dependency a success line reported for it and every missing module an
\* error line reported for it during the pass.
C19_Accumulates ==
  xpc = "returned" =>
    \A f \in LineFiles, name \in LineModules :
      /\ <<"out", OutLine(f, <<name>>)>> \in seen => name \in Listed(MainIdentity(f))
      /\ <<"err", ErrLine(f, name)>> \in seen => name \in Listed(MainIdentity(f))

\* what the well-formed lines seen so far report for identity id
ReportedFor(id) ==
  {name \in LineModules :
     \E f \in LineFiles :
       /\ MainIdentity(f) = id
       /\ \/ <<"out", OutLine(f, <<name>>)>> \in seen
          \/ <<"err", ErrLine(f, name)>> \in seen}

\* C20: an error line of any other shape is ignored: the scan is not aborted,
\* dependency_map lists only what the well-formed lines reported, and the
\* incomplete set is empty as long as no well-formed error line was seen.
C20_OtherLinesIgnored ==
  /\ xpc # "error"
  /\ \A id \in DOMAIN dependency_map : Listed(id) \subseteq ReportedFor(id)
  /\ incomplete # {} =>
       \E f \in LineFiles, name \in LineModules : <<"err", ErrLine(f, name)>> \in seen

-----------------------------------------------------------------------------
(* Properties of scan_grep *)

\* C12: scan_grep returns normally; on return every input file has an entry
\* under its identity, the entry of file F lists the name of every output
\* line "F: import <name> {" or "F: include <name>;", and the incomplete set
\* is empty.
C12_GrepExtracts ==
  /\ xpc # "error"
  /\ xpc = "returned" =>
       /\ incomplete = {}
       /\ \A f \in grep_files.names :
            /\ MainIdentity(f) \in DOMAIN dependency_map
            /\ \A st \in Statements[f] :
                 (\E k \in 1..Len(grep_out) : grep_out[k] = GrepLine(f, st[1], st[2]))
                   => st[2] \in Listed(MainIdentity(f))

====
